---- MODULE Spec2Model ----
(***************************************************************************)
(* TopicCache of rmw_fastrtps_shared_cpp (topic_cache.hpp): a mutex-guarded *)
(* pair of maps, topic_to_types_ (topic name -> vector of type names) and   *)
(* participant_to_topics_ (GUID -> topic name -> vector of type names).     *)
(*                                                                         *)
(* A map is a function whose DOMAIN is its key set, so an absent key and a  *)
(* key bound to an empty vector are different values.  A vector is a        *)
(* sequence.                                                               *)
(*                                                                         *)
(* Spec        : every public operation is one atomic action (the          *)
(*               operations as a single caller sees them).                  *)
(* SpecLive    : addTopic and removeTopic beside a reference multiset of    *)
(*               the registrations made and not withdrawn.                  *)
(* SpecThreads : NumThreads callers, each call a lock_guard over mutex_     *)
(*               around its statements, one action per statement.           *)
(***************************************************************************)
EXTENDS Integers, Sequences, FiniteSets

\* ------------------------------------------------------------------ bounds
Handles      == {"h1", "h2"}           \* InstanceHandle_t values of the callers
Topics       == {"/chatter", "/rosout"}
Types        == {"A", "B"}
MaxRegs      == 3                      \* cap on the entries held by either map
MaxNames     == 2                      \* longest candidate list given to countParticipants
NumThreads   == 2                      \* concurrent callers
ThreadMaxRegs == 2                     \* cap on the entries of either map under threads
SnapMaxRegs  == 2                      \* cap on the entries of either map beside a held clone
CountMaxRegs == 2                      \* cap on the entries of either map of a listener's cache

\* The outcomes a build produces for vector::erase(end()): libstdc++ without
\* assertions destroys the last element, a hardened or debug build aborts.
UBOutcomes   == {"pop_back", "abort"}

\* ------------------------------------------------------------- containers
EmptyMap == [k \in {} |-> <<>>]

Put(m, k, v) == [x \in (DOMAIN m) \cup {k} |-> IF x = k THEN v ELSE m[x]]

Erase(m, k) == [x \in (DOMAIN m) \ {k} |-> m[x]]

\* map::operator[] as a read: the value at k, a default-constructed one when
\* k is absent (the Put that follows makes the insertion).
ListOf(m, t) == IF t \in DOMAIN m THEN m[t] ELSE <<>>

MapOf(pt, g) == IF g \in DOMAIN pt THEN pt[g] ELSE EmptyMap

\* The TypeList a participant holds for a topic, none counting as empty.
LocalListOf(pt, g, t) == ListOf(MapOf(pt, g), t)

\* std::find(begin, end, value): index of the first match, Len + 1 for end().
RECURSIVE FindFrom(_, _, _)
FindFrom(vec, value, i) ==
    IF i > Len(vec) THEN Len(vec) + 1
    ELSE IF vec[i] = value THEN i
    ELSE FindFrom(vec, value, i + 1)

\* Mutant: the last match instead of the first.
FindLast(vec, value) ==
    IF \E i \in 1..Len(vec) : vec[i] = value
    THEN CHOOSE i \in 1..Len(vec) :
            vec[i] = value /\ \A j \in (i + 1)..Len(vec) : vec[j] # value
    ELSE Len(vec) + 1

Find(vec, value) == FindFrom(vec, value, 1)

\* vector::erase(it) for a dereferenceable iterator.
EraseAt(vec, i) == SubSeq(vec, 1, i - 1) \o SubSeq(vec, i + 1, Len(vec))

\* vector::pop_back, what erase(end()) amounts to in an unchecked libstdc++.
PopBack(vec) == SubSeq(vec, 1, Len(vec) - 1)

\* GUID of an instance handle: distinct handles give distinct GUIDs.
iHandle2GUID(h) == CASE h = "h1" -> "P1" [] h = "h2" -> "P2"

Guids == {iHandle2GUID(h) : h \in Handles}

\* --------------------------------------------------------------- helpers
initializeTopic(topic_name, map) ==
    IF topic_name \notin DOMAIN map THEN Put(map, topic_name, <<>>) ELSE map

initializeParticipantMap(map, guid) ==
    IF guid \notin DOMAIN map THEN Put(map, guid, EmptyMap) ELSE map

\* ------------------------------------------------------- cache as a value
\* tt: topic_to_types_, pt: participant_to_topics_, crashed: the process was
\* aborted inside the operation.
Cache(tt, pt) == [tt |-> tt, pt |-> pt, crashed |-> FALSE]

\* addTopic, statement by statement.
AddInitGlobal(c, topic_name) ==
    [c EXCEPT !.tt = initializeTopic(topic_name, c.tt)]

AddInitParticipant(c, guid) ==
    [c EXCEPT !.pt = initializeParticipantMap(c.pt, guid)]

AddInitLocal(c, guid, topic_name) ==
    [c EXCEPT !.pt = Put(c.pt, guid, initializeTopic(topic_name, MapOf(c.pt, guid)))]

\* A push that skips a type the list already holds.
AddPushGlobalOnce(c, topic_name, type_name) ==
    IF Find(ListOf(c.tt, topic_name), type_name) <= Len(ListOf(c.tt, topic_name))
    THEN c
    ELSE [c EXCEPT !.tt = Put(c.tt, topic_name,
                              Append(ListOf(c.tt, topic_name), type_name))]

AddPushGlobal(c, topic_name, type_name) ==
    [c EXCEPT !.tt = Put(c.tt, topic_name,
                         Append(ListOf(c.tt, topic_name), type_name))]

AddPushLocal(c, guid, topic_name, type_name) ==
    [c EXCEPT !.pt = Put(c.pt, guid,
        Put(MapOf(c.pt, guid), topic_name,
            Append(ListOf(MapOf(c.pt, guid), topic_name), type_name)))]

addTopic(c, h, topic_name, type_name) ==
    LET guid == iHandle2GUID(h)
        c1 == AddInitGlobal(c, topic_name)
        c2 == AddInitParticipant(c1, guid)
        c3 == AddInitLocal(c2, guid, topic_name)
        c4 == AddPushGlobal(c3, topic_name, type_name)
        c5 == AddPushLocal(c4, guid, topic_name, type_name)
    IN  [cache |-> c5, returned |-> TRUE, ret |-> TRUE,
         endGlobal |-> FALSE, endLocal |-> FALSE]

\* type_vec.erase(std::find(...)): the vector after the call, or the abort.
\* out is the outcome the build gives when find returned end().
EraseFound(vec, type_name, out) ==
    LET i == Find(vec, type_name)
    IN  IF i <= Len(vec) THEN [vec |-> EraseAt(vec, i), crashed |-> FALSE]
        ELSE IF out = "pop_back" /\ Len(vec) > 0
             THEN [vec |-> PopBack(vec), crashed |-> FALSE]
        ELSE [vec |-> vec, crashed |-> TRUE]

\* removeTopic, statement by statement.
RemGlobalAbsent(c, topic_name) == topic_name \notin DOMAIN c.tt

RemEraseGlobal(c, topic_name, type_name, out) ==
    LET r == EraseFound(ListOf(c.tt, topic_name), type_name, out)
    IN  [c EXCEPT !.tt = Put(c.tt, topic_name, r.vec), !.crashed = r.crashed]

RemPruneGlobal(c, topic_name) ==
    IF ListOf(c.tt, topic_name) = <<>>
    THEN [c EXCEPT !.tt = Erase(c.tt, topic_name)]
    ELSE c

RemLocalFound(c, guid, topic_name) ==
    guid \in DOMAIN c.pt /\ topic_name \in DOMAIN MapOf(c.pt, guid)

RemEraseLocal(c, guid, topic_name, type_name, out) ==
    LET r == EraseFound(ListOf(MapOf(c.pt, guid), topic_name), type_name, out)
    IN  [c EXCEPT !.pt = Put(c.pt, guid, Put(MapOf(c.pt, guid), topic_name, r.vec)),
                  !.crashed = r.crashed]

RemPruneLocalTopic(c, guid, topic_name) ==
    IF ListOf(MapOf(c.pt, guid), topic_name) = <<>>
    THEN [c EXCEPT !.pt = Put(c.pt, guid, Erase(MapOf(c.pt, guid), topic_name))]
    ELSE c

\* Mutant: the participant key is kept once its topic map is empty.
RemPruneParticipantNever(c, guid) == c

RemPruneParticipant(c, guid) ==
    IF DOMAIN MapOf(c.pt, guid) = {} THEN [c EXCEPT !.pt = Erase(c.pt, guid)] ELSE c

\* Lines 178-184: the global half.
RemoveGlobalHalf(c, topic_name, type_name, out) ==
    LET c1 == RemEraseGlobal(c, topic_name, type_name, out)
    IN  IF c1.crashed THEN c1 ELSE RemPruneGlobal(c1, topic_name)

\* Lines 186-204: the local half, skipped when the participant has no entry
\* for the topic.
RemoveLocalHalf(c, guid, topic_name, type_name, out) ==
    IF ~RemLocalFound(c, guid, topic_name) THEN c
    ELSE LET c3 == RemEraseLocal(c, guid, topic_name, type_name, out)
         IN  IF c3.crashed THEN c3
             ELSE RemPruneParticipant(RemPruneLocalTopic(c3, guid, topic_name), guid)

\* find returned end() for the erase of the global, of the local vector.
HitsEndGlobal(c, topic_name, type_name) ==
    /\ ~RemGlobalAbsent(c, topic_name)
    /\ Find(ListOf(c.tt, topic_name), type_name) > Len(ListOf(c.tt, topic_name))

HitsEndLocal(c, guid, topic_name, type_name) ==
    /\ RemLocalFound(c, guid, topic_name)
    /\ Find(LocalListOf(c.pt, guid, topic_name), type_name)
          > Len(LocalListOf(c.pt, guid, topic_name))

\* Mutant: no early return, the local half runs for a topic the global map
\* does not hold.
removeTopicLocalAnyway(c, h, topic_name, type_name, outG, outL) ==
    LET guid == iHandle2GUID(h)
        c2   == IF RemGlobalAbsent(c, topic_name) THEN c
                ELSE RemoveGlobalHalf(c, topic_name, type_name, outG)
        c5   == RemoveLocalHalf(c2, guid, topic_name, type_name, outL)
    IN  IF c2.crashed
        THEN [cache |-> c2, returned |-> FALSE, ret |-> FALSE,
              endGlobal |-> TRUE, endLocal |-> FALSE]
        ELSE [cache |-> c5, returned |-> ~c5.crashed,
              ret |-> ~c5.crashed /\ ~RemGlobalAbsent(c, topic_name),
              endGlobal |-> HitsEndGlobal(c, topic_name, type_name),
              endLocal |-> HitsEndLocal(c2, guid, topic_name, type_name)]

\* The whole of removeTopic; outG and outL are the build's outcomes for the
\* global and the local erase should find return end().
removeTopic(c, h, topic_name, type_name, outG, outL) ==
    LET guid == iHandle2GUID(h)
        c2   == RemoveGlobalHalf(c, topic_name, type_name, outG)
        c5   == RemoveLocalHalf(c2, guid, topic_name, type_name, outL)
    IN  IF RemGlobalAbsent(c, topic_name)
        THEN [cache |-> c, returned |-> TRUE, ret |-> FALSE,
              endGlobal |-> FALSE, endLocal |-> FALSE]
        ELSE IF c2.crashed
        THEN [cache |-> c2, returned |-> FALSE, ret |-> FALSE,
              endGlobal |-> TRUE, endLocal |-> FALSE]
        ELSE [cache |-> c5, returned |-> ~c5.crashed, ret |-> ~c5.crashed,
              endGlobal |-> HitsEndGlobal(c, topic_name, type_name),
              endLocal |-> HitsEndLocal(c2, guid, topic_name, type_name)]

\* countParticipants: the loop over fqdns, from index i on.
RECURSIVE CountFrom(_, _, _)
CountFrom(tt, fqdns, i) ==
    IF i > Len(fqdns) THEN 0
    ELSE (IF fqdns[i] \in DOMAIN tt THEN Len(tt[fqdns[i]]) ELSE 0)
            + CountFrom(tt, fqdns, i + 1)

\* A count of the names that are keys, whatever the length of their lists.
countParticipantsKeys(c, fqdns) ==
    Cardinality({i \in 1..Len(fqdns) : fqdns[i] \in DOMAIN c.tt})

countParticipants(c, fqdns) == CountFrom(c.tt, fqdns, 1)

\* A clone that assigns to *topics whether or not the GUID was found.
cloneParticipantTopicsAlwaysWrites(c, guid, prior) ==
    [found |-> guid \in DOMAIN c.pt, topics |-> MapOf(c.pt, guid)]

\* cloneParticipantTopics: whether the GUID was found, and the caller's
\* *topics afterwards (prior is what it held before the call).
cloneParticipantTopics(c, guid, prior) ==
    IF guid \notin DOMAIN c.pt
    THEN [found |-> FALSE, topics |-> prior]
    ELSE [found |-> TRUE, topics |-> c.pt[guid]]

cloneTopicToTypes(c) == c.tt

\* operator<<: the text is kept as the sequence of the pieces streamed.
\* std::copy through an ostream_iterator with "," as delimiter.
RenderTypes(vec) ==
    [i \in 1..(2 * Len(vec)) |-> IF i % 2 = 1 THEN vec[(i + 1) \div 2] ELSE ","]

\* The orders in which an unordered_map of the topics may be walked.
TopicOrders ==
    {s \in [1..Cardinality(Topics) -> Topics] :
        \A t \in Topics : \E i \in DOMAIN s : s[i] = t}

\* The order in which the std::map of the participants is walked.
GuidOrder == <<"P1", "P2">>

\* The inner loop of the participant section, from position i of ord on.
RECURSIVE RenderLocalFrom(_, _, _)
RenderLocalFrom(m, ord, i) ==
    IF i > Len(ord) THEN <<>>
    ELSE (IF ord[i] \in DOMAIN m
          THEN <<"    ", ord[i], ": ">> \o RenderTypes(m[ord[i]]) \o <<"\n">>
          ELSE <<>>)
         \o RenderLocalFrom(m, ord, i + 1)

\* The loop of the participant section, from position i of GuidOrder on.
RECURSIVE RenderParticipantsFrom(_, _, _)
RenderParticipantsFrom(pt, ord, i) ==
    IF i > Len(GuidOrder) THEN <<>>
    ELSE (IF GuidOrder[i] \in DOMAIN pt
          THEN <<GuidOrder[i], "\n", "  Topics: ", "\n">>
                  \o RenderLocalFrom(pt[GuidOrder[i]], ord, 1)
          ELSE <<>>)
         \o RenderParticipantsFrom(pt, ord, i + 1)

\* map_ss.
RenderParticipants(pt, ord) ==
    <<"Participant Info: ", "\n">> \o RenderParticipantsFrom(pt, ord, 1)

\* The loop of the cumulative section, from position i of ord on.
RECURSIVE RenderTopicsFrom(_, _, _)
RenderTopicsFrom(tt, ord, i) ==
    IF i > Len(ord) THEN <<>>
    ELSE (IF ord[i] \in DOMAIN tt
          THEN <<"  ", ord[i], " : ">> \o RenderTypes(tt[ord[i]]) \o <<"\n">>
          ELSE <<>>)
         \o RenderTopicsFrom(tt, ord, i + 1)

\* topics_ss.
RenderTopics(tt, ord) ==
    <<"Cumulative TopicToTypes: ", "\n">> \o RenderTopicsFrom(tt, ord, 1)

\* What operator<< writes to the stream for cache c.
Dump(c, ord) == RenderParticipants(c.pt, ord) \o RenderTopics(c.tt, ord)

\* What a caller holds after a clone call.  Both calls hand out a copy:
\* cloneTopicToTypes returns NameToNamesMap by value, cloneParticipantTopics
\* copy-assigns into the caller's own map.  A "ref" object would be the
\* cache's own map seen through a reference.
ReturnByReference(m) == [kind |-> "ref", value |-> EmptyMap]

ReturnByValue(m) == [kind |-> "copy", value |-> m]

\* Reading the object, the cache being c.
Deref(obj, c) == IF obj.kind = "copy" THEN obj.value ELSE c.tt

\* The caller assigns m to the object: the object and the cache afterwards.
AssignTo(obj, c, m) ==
    IF obj.kind = "copy"
    THEN [obj |-> [obj EXCEPT !.value = m], cache |-> c]
    ELSE [obj |-> obj, cache |-> [c EXCEPT !.tt = m]]

\* ---------------------------------------------------------- rmw_count.cpp
\* A string is the sequence of its characters.
Slash == <<"/">>

\* _get_all_ros_prefixes(): "rt", "rq", "rr".
get_all_ros_prefixes == << <<"r", "t">>, <<"r", "q">>, <<"r", "r">> >>

\* The list of all possible topic FQDN (lines 56 to 64); the character at
\* position 0 of the empty string is the terminator.
TopicFqdns(topic_name) ==
    <<topic_name>> \o
        (IF Len(topic_name) > 0 /\ <<topic_name[1]>> = Slash
         THEN [i \in 1..Len(get_all_ros_prefixes) |->
                  get_all_ros_prefixes[i] \o topic_name]
         ELSE <<>>)

\* A null rmw_node_t pointer.
NullNode == [null |-> TRUE, implementation_identifier |-> "null"]

\* The outcome of a count call: the return code, the caller's *count after the
\* call (count is its value before), and the caches the call queried.
CountError(count) == [ret |-> "RMW_RET_ERROR", count |-> count, queried |-> {}]

\* A publishers count that queries the subscribers' cache.
rmw_count_publishersOfReaders(identifier, node, topic_name, count, writer, reader) ==
    IF node.null THEN CountError(count)
    ELSE IF node.implementation_identifier # identifier THEN CountError(count)
    ELSE [ret |-> "RMW_RET_OK",
          count |-> countParticipants(reader, TopicFqdns(topic_name)),
          queried |-> {"reader_topic_cache"}]

\* __rmw_count_publishers; writer and reader are the listener's two caches.
rmw_count_publishers(identifier, node, topic_name, count, writer, reader) ==
    IF node.null THEN CountError(count)
    ELSE IF node.implementation_identifier # identifier THEN CountError(count)
    ELSE [ret |-> "RMW_RET_OK",
          count |-> countParticipants(writer, TopicFqdns(topic_name)),
          queried |-> {"writer_topic_cache"}]

\* __rmw_count_subscribers.
rmw_count_subscribers(identifier, node, topic_name, count, writer, reader) ==
    IF node.null THEN CountError(count)
    ELSE IF node.implementation_identifier # identifier THEN CountError(count)
    ELSE [ret |-> "RMW_RET_OK",
          count |-> countParticipants(reader, TopicFqdns(topic_name)),
          queried |-> {"reader_topic_cache"}]

\* ------------------------------------------------------------------ state
VARIABLES
    topic_to_types,         \* TopicCache::topic_to_types_
    participant_to_topics,  \* TopicCache::participant_to_topics_
    crashed,                \* the process was aborted by an erase(end())
    last,                   \* the call made last, with what it returned
    before,                 \* both maps as they were when that call was made
    live,                   \* reference: registrations made and not withdrawn
    mutex,                  \* TopicCache::mutex_: the thread holding it, or 0
    th,                     \* per thread: where it is in its call, and the call's locals
    ref,                    \* reference: the calls run one at a time, in lock order
    held,                   \* a caller's map filled by a clone call, kept after it
    writer_topic_cache,     \* the listener's cache of discovered writers
    reader_topic_cache,     \* the listener's cache of discovered readers
    rmw                     \* the count call made last, with the caller's count

vars == <<topic_to_types, participant_to_topics, crashed, last, before, live,
          mutex, th, ref, held, writer_topic_cache, reader_topic_cache, rmw>>

\* The callers' side of the clone calls and of the count functions.
callerVars == <<held, writer_topic_cache, reader_topic_cache, rmw>>

seqVars == <<last, before, live, callerVars>>

thrVars == <<mutex, th, ref, callerVars>>

Cur == Cache(topic_to_types, participant_to_topics)

Triples == Guids \X Topics \X Types

RECURSIVE SumOver(_, _)
SumOver(f, S) ==
    IF S = {} THEN 0
    ELSE LET x == CHOOSE y \in S : TRUE IN f[x] + SumOver(f, S \ {x})

\* Number of entries of a topic -> types map, and of the participant map.
Entries(m) == SumOver([t \in DOMAIN m |-> Len(m[t])], DOMAIN m)

LocalEntries(pt) == SumOver([g \in DOMAIN pt |-> Entries(pt[g])], DOMAIN pt)

LiveTotal == SumOver(live, Triples)

NameSeqs == UNION {[1..n -> Topics] : n \in 0..MaxNames}

\* What the caller's NameToNamesMap holds before cloneParticipantTopics.
PriorTopics == [t \in {"prior"} |-> <<>>]

Threads == 1..NumThreads

\* A thread outside any call.
IdleThread ==
    [pc |-> "idle", op |-> "none", h |-> "h1", topic |-> "/chatter", type |-> "A",
     fqdns |-> <<>>, out |-> "pop_back", i |-> 1, count |-> 0, ret |-> FALSE,
     snapshot |-> EmptyMap,
     ord |-> <<>>, map_ss |-> <<>>, topics_ss |-> <<>>, text |-> <<>>,
     expect |-> [ret |-> FALSE, count |-> 0, snapshot |-> EmptyMap, text |-> <<>>]]

NoCall ==
    [op |-> "none", h |-> "h1", topic |-> "/chatter", type |-> "A",
     fqdns |-> <<>>, returned |-> TRUE, ret |-> FALSE, count |-> 0,
     endGlobal |-> FALSE, endLocal |-> FALSE, snapshot |-> EmptyMap]

\* No clone call has been made yet.
NoSnapshot ==
    [from |-> "none", obj |-> ReturnByValue(EmptyMap), asOf |-> EmptyMap,
     edited |-> FALSE, justEdited |-> FALSE,
     index |-> [tt |-> EmptyMap, pt |-> EmptyMap]]

\* No count call has been made yet; the caller's count is zero.
NoCount ==
    [op |-> "none", node |-> NullNode, topic_name |-> <<>>, prior |-> 0,
     ret |-> "RMW_RET_OK", count |-> 0, queried |-> {}]

Init ==
    /\ topic_to_types = EmptyMap
    /\ participant_to_topics = EmptyMap
    /\ crashed = FALSE
    /\ last = NoCall
    /\ before = [tt |-> EmptyMap, pt |-> EmptyMap]
    /\ live = [x \in Triples |-> 0]
    /\ mutex = 0
    /\ th = [i \in Threads |-> IdleThread]
    /\ ref = Cache(EmptyMap, EmptyMap)
    /\ held = NoSnapshot
    /\ writer_topic_cache = Cache(EmptyMap, EmptyMap)
    /\ reader_topic_cache = Cache(EmptyMap, EmptyMap)
    /\ rmw = NoCount

\* The maps after a call that gave r.
Install(r) ==
    /\ topic_to_types' = r.cache.tt
    /\ participant_to_topics' = r.cache.pt
    /\ crashed' = r.cache.crashed

Remember == before' = [tt |-> topic_to_types, pt |-> participant_to_topics]

AddTopic ==
    \E h \in Handles, t \in Topics, ty \in Types :
        /\ ~crashed
        /\ Entries(topic_to_types) < MaxRegs
        /\ LocalEntries(participant_to_topics) < MaxRegs
        /\ LET r == addTopic(Cur, h, t, ty)
           IN  /\ Install(r)
               /\ last' = [NoCall EXCEPT !.op = "addTopic", !.h = h, !.topic = t,
                              !.type = ty, !.returned = r.returned, !.ret = r.ret]
        /\ Remember
        /\ UNCHANGED <<live, thrVars>>

RemoveTopic ==
    \E h \in Handles, t \in Topics, ty \in Types, out \in UBOutcomes :
        /\ ~crashed
        /\ LET r == removeTopic(Cur, h, t, ty, out, out)
           IN  /\ Install(r)
               /\ last' = [NoCall EXCEPT !.op = "removeTopic", !.h = h, !.topic = t,
                              !.type = ty, !.returned = r.returned, !.ret = r.ret,
                              !.endGlobal = r.endGlobal, !.endLocal = r.endLocal]
        /\ Remember
        /\ UNCHANGED <<live, thrVars>>

CountParticipants ==
    \E fqdns \in NameSeqs :
        /\ ~crashed
        /\ last' = [NoCall EXCEPT !.op = "countParticipants", !.fqdns = fqdns,
                       !.count = countParticipants(Cur, fqdns)]
        /\ Remember
        /\ UNCHANGED <<topic_to_types, participant_to_topics, crashed, live, thrVars>>

CloneParticipantTopics ==
    \E h \in Handles :
        /\ ~crashed
        /\ LET r == cloneParticipantTopics(Cur, iHandle2GUID(h), PriorTopics)
           IN  last' = [NoCall EXCEPT !.op = "cloneParticipantTopics", !.h = h,
                           !.ret = r.found, !.snapshot = r.topics]
        /\ Remember
        /\ UNCHANGED <<topic_to_types, participant_to_topics, crashed, live, thrVars>>

CloneTopicToTypes ==
    /\ ~crashed
    /\ last' = [NoCall EXCEPT !.op = "cloneTopicToTypes",
                   !.snapshot = cloneTopicToTypes(Cur)]
    /\ Remember
    /\ UNCHANGED <<topic_to_types, participant_to_topics, crashed, live, thrVars>>

Next ==
    \/ AddTopic
    \/ RemoveTopic
    \/ CountParticipants
    \/ CloneParticipantTopics
    \/ CloneTopicToTypes

Spec == Init /\ [][Next]_vars

\* ------------------------------------------- the calls against a reference
\* The same two mutators, with the registrations a test would track beside
\* the cache: a record is live from its addTopic until a removeTopic of the
\* same participant, topic and type.
LiveAddTopic ==
    \E h \in Handles, t \in Topics, ty \in Types :
        /\ ~crashed
        /\ LiveTotal < MaxRegs
        /\ LocalEntries(participant_to_topics) < MaxRegs
        /\ Install(addTopic(Cur, h, t, ty))
        /\ live' = [live EXCEPT ![<<iHandle2GUID(h), t, ty>>] = @ + 1]
        /\ UNCHANGED <<last, before, thrVars>>

LiveRemoveTopic ==
    \E h \in Handles, t \in Topics, ty \in Types, out \in UBOutcomes :
        /\ ~crashed
        /\ Install(removeTopic(Cur, h, t, ty, out, out))
        /\ live' = [live EXCEPT ![<<iHandle2GUID(h), t, ty>>] =
                                    IF @ > 0 THEN @ - 1 ELSE 0]
        /\ UNCHANGED <<last, before, thrVars>>

LiveNext == LiveAddTopic \/ LiveRemoveTopic

SpecLive == Init /\ [][LiveNext]_vars

\* ------------------------------------------- the clone calls and their caller
\* The calls one at a time, with a caller that keeps the map a clone call
\* gave it while the cache goes on changing, and that changes its map.
StillHeld == [held EXCEPT !.justEdited = FALSE, !.index = NoSnapshot.index]

SnapAddTopic ==
    \E h \in Handles, t \in Topics, ty \in Types :
        /\ ~crashed
        /\ Entries(topic_to_types) < SnapMaxRegs
        /\ LocalEntries(participant_to_topics) < SnapMaxRegs
        /\ Install(addTopic(Cur, h, t, ty))
        /\ held' = StillHeld
        /\ UNCHANGED <<last, before, live, mutex, th, ref,
                       writer_topic_cache, reader_topic_cache, rmw>>

SnapRemoveTopic ==
    \E h \in Handles, t \in Topics, ty \in Types, out \in UBOutcomes :
        /\ ~crashed
        /\ Install(removeTopic(Cur, h, t, ty, out, out))
        /\ held' = StillHeld
        /\ UNCHANGED <<last, before, live, mutex, th, ref,
                       writer_topic_cache, reader_topic_cache, rmw>>

SnapCloneTopicToTypes ==
    /\ ~crashed
    /\ held' = [NoSnapshot EXCEPT !.from = "cloneTopicToTypes",
                                  !.obj = ReturnByValue(cloneTopicToTypes(Cur)),
                                  !.asOf = topic_to_types]
    /\ UNCHANGED <<topic_to_types, participant_to_topics, crashed, last, before,
                   live, mutex, th, ref, writer_topic_cache, reader_topic_cache, rmw>>

SnapCloneParticipantTopics ==
    \E h \in Handles :
        /\ ~crashed
        /\ LET r == cloneParticipantTopics(Cur, iHandle2GUID(h), PriorTopics)
           IN  held' = [NoSnapshot EXCEPT !.from = "cloneParticipantTopics",
                                          !.obj = ReturnByValue(r.topics),
                                          !.asOf =
                                              IF iHandle2GUID(h) \in DOMAIN participant_to_topics
                                              THEN participant_to_topics[iHandle2GUID(h)]
                                              ELSE PriorTopics]
        /\ UNCHANGED <<topic_to_types, participant_to_topics, crashed, last, before,
                       live, mutex, th, ref, writer_topic_cache, reader_topic_cache,
                       rmw>>

\* The caller changes the map it was given: it sets a topic's list to one
\* type, or erases a topic.
SnapEdit ==
    \E t \in Topics, ty \in Types, erase \in BOOLEAN :
        /\ ~crashed
        /\ held.from # "none"
        /\ LET m == Deref(held.obj, Cur)
               r == AssignTo(held.obj, Cur,
                             IF erase THEN Erase(m, t) ELSE Put(m, t, <<ty>>))
           IN  /\ Install(r)
               /\ held' = [held EXCEPT !.obj = r.obj, !.edited = TRUE,
                                       !.justEdited = TRUE,
                                       !.index = [tt |-> topic_to_types,
                                                  pt |-> participant_to_topics]]
        /\ UNCHANGED <<last, before, live, mutex, th, ref,
                       writer_topic_cache, reader_topic_cache, rmw>>

SnapNext ==
    \/ SnapAddTopic
    \/ SnapRemoveTopic
    \/ SnapCloneTopicToTypes
    \/ SnapCloneParticipantTopics
    \/ SnapEdit

SpecSnapshot == Init /\ [][SnapNext]_vars

\* ------------------------------------------------------ the count functions
\* The listener's two caches change as writers and readers are discovered
\* and lost, and a caller asks for the publishers or subscribers of a topic.
\* The topic names the discovery reports, and those a caller asks about.
DiscoveredNames ==
    {<<"/", "a">>, <<"r", "t", "/", "a">>, <<"r", "q", "/", "a">>, <<"a">>}

AskedNames == {<<>>, <<"/", "a">>, <<"a">>}

\* The identifier the implementation passes, and another implementation's.
Identifier == "rmw_fastrtps_cpp"

Nodes ==
    {NullNode,
     [null |-> FALSE, implementation_identifier |-> Identifier],
     [null |-> FALSE, implementation_identifier |-> "rmw_other_cpp"]}

BothRunning == ~writer_topic_cache.crashed /\ ~reader_topic_cache.crashed

\* The caches move on: the last count call is no longer the latest event, the
\* caller still has its count.
CountIsPast == rmw' = [NoCount EXCEPT !.count = rmw.count]

WriterDiscovered ==
    \E t \in DiscoveredNames :
        /\ BothRunning
        /\ Entries(writer_topic_cache.tt) < CountMaxRegs
        /\ LocalEntries(writer_topic_cache.pt) < CountMaxRegs
        /\ writer_topic_cache' = addTopic(writer_topic_cache, "h1", t, "A").cache
        /\ CountIsPast
        /\ UNCHANGED <<topic_to_types, participant_to_topics, crashed, last, before,
                       live, mutex, th, ref, held, reader_topic_cache>>

WriterLost ==
    \E t \in DiscoveredNames, out \in UBOutcomes :
        /\ BothRunning
        /\ writer_topic_cache' =
              removeTopic(writer_topic_cache, "h1", t, "A", out, out).cache
        /\ CountIsPast
        /\ UNCHANGED <<topic_to_types, participant_to_topics, crashed, last, before,
                       live, mutex, th, ref, held, reader_topic_cache>>

ReaderDiscovered ==
    \E t \in DiscoveredNames :
        /\ BothRunning
        /\ Entries(reader_topic_cache.tt) < CountMaxRegs
        /\ LocalEntries(reader_topic_cache.pt) < CountMaxRegs
        /\ reader_topic_cache' = addTopic(reader_topic_cache, "h1", t, "A").cache
        /\ CountIsPast
        /\ UNCHANGED <<topic_to_types, participant_to_topics, crashed, last, before,
                       live, mutex, th, ref, held, writer_topic_cache>>

ReaderLost ==
    \E t \in DiscoveredNames, out \in UBOutcomes :
        /\ BothRunning
        /\ reader_topic_cache' =
              removeTopic(reader_topic_cache, "h1", t, "A", out, out).cache
        /\ CountIsPast
        /\ UNCHANGED <<topic_to_types, participant_to_topics, crashed, last, before,
                       live, mutex, th, ref, held, writer_topic_cache>>

\* The call made with these arguments and the outcome r.
Counted(op, node, topic_name, r) ==
    /\ rmw' = [op |-> op, node |-> node, topic_name |-> topic_name,
               prior |-> rmw.count, ret |-> r.ret, count |-> r.count,
               queried |-> r.queried]
    /\ UNCHANGED <<topic_to_types, participant_to_topics, crashed, last, before,
                   live, mutex, th, ref, held, writer_topic_cache,
                   reader_topic_cache>>

CountPublishers ==
    \E node \in Nodes, topic_name \in AskedNames :
        /\ BothRunning
        /\ Counted("count_publishers", node, topic_name,
                   rmw_count_publishers(Identifier, node, topic_name, rmw.count,
                                        writer_topic_cache, reader_topic_cache))

CountSubscribers ==
    \E node \in Nodes, topic_name \in AskedNames :
        /\ BothRunning
        /\ Counted("count_subscribers", node, topic_name,
                   rmw_count_subscribers(Identifier, node, topic_name, rmw.count,
                                         writer_topic_cache, reader_topic_cache))

CountNext ==
    \/ WriterDiscovered
    \/ WriterLost
    \/ ReaderDiscovered
    \/ ReaderLost
    \/ CountPublishers
    \/ CountSubscribers

SpecCount == Init /\ [][CountNext]_vars

\* ------------------------------------------------------ the calls as threads
\* Each call is a lock_guard over mutex_ around its statements, one action per
\* statement.  A call blocked on the lock has not yet used its arguments, so
\* they are drawn when the lock is taken.

\* Mutant: no exclusion, the guard is constructed whoever holds the mutex.
CanLockAlways(m) == TRUE

\* std::lock_guard's constructor returns once the mutex is free.
CanLock(m) == m = 0

Goto(self, pc) == th' = [th EXCEPT ![self].pc = pc]

At(self, pc) == ~crashed /\ th[self].pc = pc

\* The statement of a thread gave cache c and takes it to pc.
Stmt(self, c, pc) ==
    /\ Install([cache |-> c])
    /\ Goto(self, pc)
    /\ UNCHANGED <<mutex, ref, seqVars>>

Invoke(self) ==
    /\ At(self, "idle")
    /\ th' = [th EXCEPT ![self] = [IdleThread EXCEPT !.pc = "lock"]]
    /\ UNCHANGED <<topic_to_types, participant_to_topics, crashed, mutex, ref, seqVars>>

\* The lock is taken; ref makes the whole call at this instant.
Enter(self, call, pc, r, expect) ==
    /\ mutex' = self
    /\ th' = [th EXCEPT ![self] = [call EXCEPT !.pc = pc, !.expect = expect]]
    /\ ref' = r
    /\ UNCHANGED <<topic_to_types, participant_to_topics, crashed, seqVars>>

LockAdd(self) ==
    \E h \in Handles, t \in Topics, ty \in Types :
        /\ At(self, "lock") /\ CanLock(mutex)
        /\ Entries(topic_to_types) < ThreadMaxRegs
        /\ LocalEntries(participant_to_topics) < ThreadMaxRegs
        /\ LET r == addTopic(ref, h, t, ty)
           IN  Enter(self,
                     [IdleThread EXCEPT !.op = "addTopic", !.h = h, !.topic = t,
                                        !.type = ty],
                     "add138", r.cache,
                     [IdleThread.expect EXCEPT !.ret = r.ret])

LockRemove(self) ==
    \E h \in Handles, t \in Topics, ty \in Types, out \in UBOutcomes :
        /\ At(self, "lock") /\ CanLock(mutex)
        /\ LET r == removeTopic(ref, h, t, ty, out, out)
           IN  Enter(self,
                     [IdleThread EXCEPT !.op = "removeTopic", !.h = h, !.topic = t,
                                        !.type = ty, !.out = out],
                     "rem171", r.cache,
                     [IdleThread.expect EXCEPT !.ret = r.ret])

LockCount(self) ==
    \E fqdns \in NameSeqs :
        /\ At(self, "lock") /\ CanLock(mutex)
        /\ Enter(self,
                 [IdleThread EXCEPT !.op = "countParticipants", !.fqdns = fqdns],
                 "cnt213", ref,
                 [IdleThread.expect EXCEPT !.count = countParticipants(ref, fqdns)])

LockCloneParticipant(self) ==
    \E h \in Handles :
        /\ At(self, "lock") /\ CanLock(mutex)
        /\ LET r == cloneParticipantTopics(ref, iHandle2GUID(h), PriorTopics)
           IN  Enter(self,
                     [IdleThread EXCEPT !.op = "cloneParticipantTopics", !.h = h,
                                        !.snapshot = PriorTopics],
                     "clp107", ref,
                     [IdleThread.expect EXCEPT !.ret = r.found,
                                               !.snapshot = r.topics])

LockCloneTopics(self) ==
    /\ At(self, "lock") /\ CanLock(mutex)
    /\ Enter(self, [IdleThread EXCEPT !.op = "cloneTopicToTypes"], "clt121", ref,
             [IdleThread.expect EXCEPT !.snapshot = cloneTopicToTypes(ref)])

\* addTopic, lines 138 to 154.
AddStmt138(self) ==
    /\ At(self, "add138")
    /\ Stmt(self, AddInitGlobal(Cur, th[self].topic), "add140")

AddStmt140(self) ==
    /\ At(self, "add140")
    /\ Stmt(self, AddInitParticipant(Cur, iHandle2GUID(th[self].h)), "add141")

AddStmt141(self) ==
    /\ At(self, "add141")
    /\ Stmt(self, AddInitLocal(Cur, iHandle2GUID(th[self].h), th[self].topic), "add152")

AddStmt152(self) ==
    /\ At(self, "add152")
    /\ Stmt(self, AddPushGlobal(Cur, th[self].topic, th[self].type), "add153")

AddStmt153(self) ==
    /\ At(self, "add153")
    /\ Install([cache |-> AddPushLocal(Cur, iHandle2GUID(th[self].h),
                                       th[self].topic, th[self].type)])
    /\ th' = [th EXCEPT ![self].pc = "unlock", ![self].ret = TRUE]
    /\ UNCHANGED <<mutex, ref, seqVars>>

\* An early return that leaves the function with the mutex still locked.
RemStmt171KeepsLock(self) ==
    /\ At(self, "rem171")
    /\ IF RemGlobalAbsent(Cur, th[self].topic)
       THEN th' = [th EXCEPT ![self] = IdleThread]
       ELSE Goto(self, "rem180")
    /\ UNCHANGED <<topic_to_types, participant_to_topics, crashed, mutex, ref, seqVars>>

\* removeTopic, lines 171 to 205.
RemStmt171(self) ==
    /\ At(self, "rem171")
    /\ IF RemGlobalAbsent(Cur, th[self].topic)
       THEN th' = [th EXCEPT ![self].pc = "unlock", ![self].ret = FALSE]
       ELSE Goto(self, "rem180")
    /\ UNCHANGED <<topic_to_types, participant_to_topics, crashed, mutex, ref, seqVars>>

RemStmt180(self) ==
    /\ At(self, "rem180")
    /\ Stmt(self, RemEraseGlobal(Cur, th[self].topic, th[self].type, th[self].out),
            "rem181")

RemStmt181(self) ==
    /\ At(self, "rem181")
    /\ Stmt(self, RemPruneGlobal(Cur, th[self].topic), "rem188")

RemStmt188(self) ==
    /\ At(self, "rem188")
    /\ IF RemLocalFound(Cur, iHandle2GUID(th[self].h), th[self].topic)
       THEN Goto(self, "rem192")
       ELSE th' = [th EXCEPT ![self].pc = "unlock", ![self].ret = TRUE]
    /\ UNCHANGED <<topic_to_types, participant_to_topics, crashed, mutex, ref, seqVars>>

RemStmt192(self) ==
    /\ At(self, "rem192")
    /\ Stmt(self, RemEraseLocal(Cur, iHandle2GUID(th[self].h), th[self].topic,
                                th[self].type, th[self].out), "rem193")

RemStmt193(self) ==
    /\ At(self, "rem193")
    /\ Stmt(self, RemPruneLocalTopic(Cur, iHandle2GUID(th[self].h), th[self].topic),
            "rem196")

RemStmt196(self) ==
    /\ At(self, "rem196")
    /\ Install([cache |-> RemPruneParticipant(Cur, iHandle2GUID(th[self].h))])
    /\ th' = [th EXCEPT ![self].pc = "unlock", ![self].ret = TRUE]
    /\ UNCHANGED <<mutex, ref, seqVars>>

\* countParticipants, one turn of the loop of lines 213 to 218.
CountStmt213(self) ==
    /\ At(self, "cnt213")
    /\ LET t == th[self]
       IN  IF t.i > Len(t.fqdns)
           THEN Goto(self, "unlock")
           ELSE th' = [th EXCEPT ![self].i = @ + 1,
                                 ![self].count = @ + CountFrom(topic_to_types,
                                                     <<t.fqdns[t.i]>>, 1)]
    /\ UNCHANGED <<topic_to_types, participant_to_topics, crashed, mutex, ref, seqVars>>

\* cloneParticipantTopics, lines 107 to 112.
CloneStmt107(self) ==
    /\ At(self, "clp107")
    /\ LET r == cloneParticipantTopics(Cur, iHandle2GUID(th[self].h), th[self].snapshot)
       IN  th' = [th EXCEPT ![self].pc = "unlock", ![self].ret = r.found,
                            ![self].snapshot = r.topics]
    /\ UNCHANGED <<topic_to_types, participant_to_topics, crashed, mutex, ref, seqVars>>

\* cloneTopicToTypes, line 121.
CloneStmt121(self) ==
    /\ At(self, "clt121")
    /\ th' = [th EXCEPT ![self].pc = "unlock",
                        ![self].snapshot = cloneTopicToTypes(Cur)]
    /\ UNCHANGED <<topic_to_types, participant_to_topics, crashed, mutex, ref, seqVars>>

\* operator<<, lines 230 to 253: the order the unordered_maps are walked in
\* is the implementation's, one order per call here.
LockDump(self) ==
    \E ord \in TopicOrders :
        /\ At(self, "lock") /\ CanLock(mutex)
        /\ Enter(self, [IdleThread EXCEPT !.op = "dump", !.ord = ord], "dmp231",
                 ref, [IdleThread.expect EXCEPT !.text = Dump(ref, ord)])

DumpStmt231(self) ==
    /\ At(self, "dmp231")
    /\ th' = [th EXCEPT ![self].pc = "dmp244",
                        ![self].map_ss =
                            RenderParticipants(participant_to_topics, th[self].ord)]
    /\ UNCHANGED <<topic_to_types, participant_to_topics, crashed, mutex, ref, seqVars>>

DumpStmt244(self) ==
    /\ At(self, "dmp244")
    /\ th' = [th EXCEPT ![self].pc = "dmp252",
                        ![self].topics_ss =
                            RenderTopics(topic_to_types, th[self].ord)]
    /\ UNCHANGED <<topic_to_types, participant_to_topics, crashed, mutex, ref, seqVars>>

DumpStmt252(self) ==
    /\ At(self, "dmp252")
    /\ th' = [th EXCEPT ![self].pc = "unlock",
                        ![self].text = th[self].map_ss \o th[self].topics_ss]
    /\ UNCHANGED <<topic_to_types, participant_to_topics, crashed, mutex, ref, seqVars>>

\* The lock_guard goes out of scope and the call returns.
Unlock(self) ==
    /\ At(self, "unlock")
    /\ mutex' = 0
    /\ th' = [th EXCEPT ![self] = IdleThread]
    /\ UNCHANGED <<topic_to_types, participant_to_topics, crashed, ref, seqVars>>

ThreadNext ==
    \E self \in Threads :
        \/ Invoke(self)
        \/ LockAdd(self)
        \/ LockRemove(self)
        \/ LockCount(self)
        \/ LockCloneParticipant(self)
        \/ LockCloneTopics(self)
        \/ AddStmt138(self)
        \/ AddStmt140(self)
        \/ AddStmt141(self)
        \/ AddStmt152(self)
        \/ AddStmt153(self)
        \/ RemStmt171(self)
        \/ RemStmt180(self)
        \/ RemStmt181(self)
        \/ RemStmt188(self)
        \/ RemStmt192(self)
        \/ RemStmt193(self)
        \/ RemStmt196(self)
        \/ CountStmt213(self)
        \/ CloneStmt107(self)
        \/ CloneStmt121(self)
        \/ LockDump(self)
        \/ DumpStmt231(self)
        \/ DumpStmt244(self)
        \/ DumpStmt252(self)
        \/ Unlock(self)

SpecThreads == Init /\ [][ThreadNext]_vars

\* ----------------------------------------------------------------- claims
Range(vec) == {vec[i] : i \in 1..Len(vec)}

Occurrences(vec, ty) == Cardinality({i \in 1..Len(vec) : vec[i] = ty})


LocalOccurrences(pt, t, ty) ==
    SumOver([g \in Guids |-> Occurrences(LocalListOf(pt, g, t), ty)], Guids)

LastGuid == iHandle2GUID(last.h)

\* C1 (I3): after every completed operation, for every topic the participants'
\* local TypeLists together hold each type as often as the global TypeList of
\* that topic does.
CrossMapConsistent ==
    last.returned =>
        \A t \in Topics, ty \in Types :
            Occurrences(ListOf(topic_to_types, t), ty)
                = LocalOccurrences(participant_to_topics, t, ty)

\* C2 (I1): between operations a topic is a key of the global map exactly when
\* some participant holds an entry for it.
NoGhostNoMissingTopic ==
    last.returned =>
        \A t \in Topics :
            t \in DOMAIN topic_to_types
                <=> \E g \in Guids : LocalListOf(participant_to_topics, g, t) # <<>>

\* C3 (I2/I4): no topic key is bound to an empty TypeList, in the global map
\* or under any participant, and no participant key is bound to an empty map.
NoEmptyCollections ==
    /\ \A t \in DOMAIN topic_to_types : topic_to_types[t] # <<>>
    /\ \A g \in DOMAIN participant_to_topics :
          /\ DOMAIN participant_to_topics[g] # {}
          /\ \A t \in DOMAIN participant_to_topics[g] :
                participant_to_topics[g][t] # <<>>

\* A removeTopic has just emptied the topic's global list, the participant's
\* list for it and the participant's map, and all three keys are gone.
EmptiedAndErased ==
    /\ last.op = "removeTopic" /\ last.returned
    /\ last.topic \in DOMAIN before.tt /\ last.topic \notin DOMAIN topic_to_types
    /\ LastGuid \in DOMAIN before.pt /\ LastGuid \notin DOMAIN participant_to_topics
    /\ participant_to_topics # EmptyMap

\* C6: countParticipants([t]) is the number of live registration records of t.
CountEqualsLive ==
    ~crashed =>
        \A t \in Topics :
            countParticipants(Cur, <<t>>)
                = SumOver([x \in Triples |-> IF x[2] = t THEN live[x] ELSE 0], Triples)

\* addTopic(h, t, ty) and then removeTopic(h, t, ty), from the present state.
RoundTrip(h, t, ty, out) ==
    removeTopic(addTopic(Cur, h, t, ty).cache, h, t, ty, out, out)

\* C7 as stated: the round trip restores both maps exactly, element order
\* included.
RoundTripExact ==
    ~crashed =>
        \A h \in Handles, t \in Topics, ty \in Types, out \in UBOutcomes :
            LET r == RoundTrip(h, t, ty, out)
            IN  /\ r.returned
                /\ r.cache.tt = topic_to_types
                /\ r.cache.pt = participant_to_topics

\* vec without its first ty.
WithoutFirst(vec, ty) ==
    LET i == CHOOSE k \in 1..Len(vec) :
                vec[k] = ty /\ \A j \in 1..(k - 1) : vec[j] # ty
    IN  [j \in 1..(Len(vec) - 1) |-> IF j < i THEN vec[j] ELSE vec[j + 1]]

\* vec with its first ty, if it has one, moved to the end.
FirstMovedToEnd(vec, ty) ==
    IF ty \in Range(vec) THEN Append(WithoutFirst(vec, ty), ty) ELSE vec

\* C7 amended: the round trip restores the keys of both maps and every
\* TypeList up to the position of ty: a list that did not hold ty is restored
\* exactly, in one that did the first ty is the one removed and the added one
\* stays last; nothing else changes and no empty entry is left.
RoundTripUpToOrder ==
    ~crashed =>
        \A h \in Handles, t \in Topics, ty \in Types, out \in UBOutcomes :
            LET r == RoundTrip(h, t, ty, out)
                g == iHandle2GUID(h)
                tt == topic_to_types
                pt == participant_to_topics
            IN  /\ r.returned /\ r.ret /\ ~r.endGlobal /\ ~r.endLocal
                /\ r.cache.tt = IF t \in DOMAIN tt
                                THEN [tt EXCEPT ![t] = FirstMovedToEnd(@, ty)]
                                ELSE tt
                /\ r.cache.pt = IF g \in DOMAIN pt /\ t \in DOMAIN pt[g]
                                THEN [pt EXCEPT ![g][t] = FirstMovedToEnd(@, ty)]
                                ELSE pt

\* A removeTopic has just undone an addTopic of a type the lists already
\* held before another type: <<ty, other>> became <<ty, other, ty>> and is now
\* <<other, ty>>, globally and for the participant.
RoundTripReordered ==
    /\ last.op = "removeTopic" /\ last.returned /\ last.ret
    /\ last.topic \in DOMAIN before.tt /\ last.topic \in DOMAIN topic_to_types
    /\ LET pre == before.tt[last.topic]
           post == topic_to_types[last.topic]
       IN  /\ Len(pre) = 3 /\ pre[1] = last.type /\ pre[3] = last.type
           /\ pre[2] # last.type
           /\ post = <<pre[2], last.type>>
           /\ LocalListOf(before.pt, LastGuid, last.topic) = pre
           /\ LocalListOf(participant_to_topics, LastGuid, last.topic) = post

\* C8: removeTopic for a topic that is no key of the global map returns false
\* and leaves both maps as they were, and so does the same call made again.
RemoveAbsentIsNoOp ==
    (last.op = "removeTopic" /\ last.topic \notin DOMAIN before.tt) =>
        /\ last.returned /\ ~last.ret
        /\ topic_to_types = before.tt
        /\ participant_to_topics = before.pt
        /\ \A out \in UBOutcomes :
              LET r == removeTopic(Cur, last.h, last.topic, last.type, out, out)
              IN  r.returned /\ ~r.ret /\ r.cache = Cur

\* A removeTopic has just been refused for a topic absent from the global map
\* while the participant held that topic and another one.
RemovedAbsentTopic ==
    /\ last.op = "removeTopic" /\ last.topic \notin DOMAIN before.tt
    /\ LastGuid \in DOMAIN before.pt
    /\ last.topic \in DOMAIN before.pt[LastGuid]
    /\ DOMAIN before.pt[LastGuid] # {last.topic}

\* C9: removeTopic for a type the topic's global list holds removes the first
\* occurrence and only it: the list is one shorter, the other elements keep
\* their order, the key goes exactly when the list is empty, and no other
\* topic's list changes.
FirstMatchRemoved ==
    (/\ last.op = "removeTopic"
     /\ last.topic \in DOMAIN before.tt
     /\ last.type \in Range(before.tt[last.topic])) =>
        LET pre  == before.tt[last.topic]
            post == ListOf(topic_to_types, last.topic)
        IN  /\ Len(post) = Len(pre) - 1
            /\ post = WithoutFirst(pre, last.type)
            /\ last.topic \in DOMAIN topic_to_types <=> Len(pre) > 1
            /\ \A u \in Topics \ {last.topic} :
                  /\ u \in DOMAIN topic_to_types <=> u \in DOMAIN before.tt
                  /\ ListOf(topic_to_types, u) = ListOf(before.tt, u)

\* A removeTopic has just taken the first of two occurrences of its type that
\* had another type between them.
RemovedFirstOfTwo ==
    /\ last.op = "removeTopic" /\ last.returned
    /\ last.topic \in DOMAIN before.tt
    /\ LET pre == before.tt[last.topic]
       IN  /\ Len(pre) = 3 /\ pre[1] = last.type /\ pre[2] # last.type
           /\ pre[3] = last.type
           /\ ListOf(topic_to_types, last.topic) = <<pre[2], pre[3]>>

\* C10: removeTopic returns, and returns true exactly when the topic was a
\* key of the global map and its list held the type; false in every other
\* case.
RemoveTrueIffTypeRemoved ==
    last.op = "removeTopic" =>
        /\ last.returned
        /\ last.ret <=> (/\ last.topic \in DOMAIN before.tt
                         /\ last.type \in Range(before.tt[last.topic]))

\* The statements of addTopic after which its effect is partial: an empty
\* entry made, or one of the two appends still to come.
AddPartialPcs == {"add140", "add141", "add152", "add153"}

\* A thread whose next statement reads or writes one of the maps.
Accessing(i) == th[i].pc \notin {"idle", "lock", "unlock"}

HasEmptyList(m) == \E t \in DOMAIN m : m[t] = <<>>

\* C4: while an addTopic is between its first write and its last, no other
\* call reads or writes the maps, and no snapshot a clone hands back shows an
\* empty TypeList.
AddTopicAtomic ==
    /\ \A i \in Threads :
          th[i].pc \in AddPartialPcs =>
              \A j \in Threads \ {i} : ~Accessing(j)
    /\ \A j \in Threads :
          (th[j].pc = "unlock" /\ th[j].op = "cloneTopicToTypes")
              => ~HasEmptyList(th[j].snapshot)
    /\ \A j \in Threads :
          (th[j].pc = "unlock" /\ th[j].op = "cloneParticipantTopics" /\ th[j].ret)
              => th[j].snapshot # EmptyMap /\ ~HasEmptyList(th[j].snapshot)

\* An addTopic has made its global append and not yet its local one while
\* another call waits for the lock.
AddHalfDoneOtherWaits ==
    \E i \in Threads, j \in Threads :
        /\ i # j
        /\ th[i].pc = "add153" /\ th[j].pc = "lock"
        /\ Occurrences(ListOf(topic_to_types, th[i].topic), th[i].type)
              > LocalOccurrences(participant_to_topics, th[i].topic, th[i].type)

SameAsRef ==
    /\ topic_to_types = ref.tt
    /\ participant_to_topics = ref.pt
    /\ crashed = ref.crashed

\* C5: the calls take effect one at a time in the order they take the lock:
\* whenever the lock is free both maps are what those calls, run one after
\* another, leave, and every call returns what it returns in that run.
Linearizable ==
    /\ (mutex = 0 \/ crashed) => SameAsRef
    /\ \A i \in Threads :
          th[i].pc = "unlock" =>
              /\ SameAsRef
              /\ th[i].ret = th[i].expect.ret
              /\ th[i].count = th[i].expect.count
              /\ th[i].snapshot = th[i].expect.snapshot

\* A removeTopic that removed is about to return while another call waits
\* for the lock, and a later registration is still held.
RemoveReturnsOtherWaits ==
    \E i \in Threads, j \in Threads :
        /\ i # j
        /\ th[i].pc = "unlock" /\ th[i].op = "removeTopic" /\ th[i].ret
        /\ th[j].pc = "lock"
        /\ topic_to_types # EmptyMap

\* ------------------------------------------------- claims on removeTopic's
\* local half
\* The lookup the claim speaks of: the participant holds typeName for the
\* topic.
HeldLocally(pt, guid, topic_name, type_name) ==
    type_name \in Range(LocalListOf(pt, guid, topic_name))

\* C11: a removeTopic for a topic the global map holds, made for a
\* participant that has no entry, or no entry for the topic, or whose list
\* for the topic does not hold the type, returns, leaves the participant map
\* exactly as it was, and still takes one element off the topic's global list.
LocalHalfSkippedWhenNotHeld ==
    (/\ last.op = "removeTopic"
     /\ last.topic \in DOMAIN before.tt
     /\ ~HeldLocally(before.pt, LastGuid, last.topic, last.type)) =>
        /\ last.returned
        /\ participant_to_topics = before.pt
        /\ Len(ListOf(topic_to_types, last.topic))
              = Len(before.tt[last.topic]) - 1

\* C19: a removeTopic never applies erase to the end position: whenever it
\* erases from a list, the global one or the participant's, the type it
\* searched for is in that list, and so the call returns.
NeverErasesAtEnd ==
    last.op = "removeTopic" =>
        /\ ~last.endGlobal
        /\ ~last.endLocal
        /\ last.returned

\* ------------------------------------------------------- claims on addTopic
\* How many times in a row the same registration is repeated.
MaxRepeat == 3

\* The cache after k addTopic calls with the same arguments.
RECURSIVE AddTimes(_, _, _, _, _)
AddTimes(c, h, t, ty, k) ==
    IF k = 0 THEN c ELSE addTopic(AddTimes(c, h, t, ty, k - 1), h, t, ty).cache

\* C15: addTopic is total and never deduplicates: in every state and for
\* every participant, topic and type it returns true, appends the type at
\* the end of the topic's global list and of the participant's list for the
\* topic, creating the keys that are missing, and changes no other list or
\* key; k calls with the same arguments raise the topic's count by k.
AddTopicAppends ==
    /\ last.op = "addTopic" =>
          /\ last.returned /\ last.ret
          /\ topic_to_types =
                addTopic(Cache(before.tt, before.pt), last.h, last.topic,
                         last.type).cache.tt
    /\ ~crashed =>
        \A h \in Handles, t \in Topics, ty \in Types :
            LET r == addTopic(Cur, h, t, ty)
                g == iHandle2GUID(h)
                tt == topic_to_types
                pt == participant_to_topics
            IN  /\ r.returned /\ r.ret /\ ~r.cache.crashed
                /\ DOMAIN r.cache.tt = DOMAIN tt \cup {t}
                /\ r.cache.tt[t] = ListOf(tt, t) \o <<ty>>
                /\ \A u \in DOMAIN tt \ {t} : r.cache.tt[u] = tt[u]
                /\ DOMAIN r.cache.pt = DOMAIN pt \cup {g}
                /\ \A q \in DOMAIN pt \ {g} : r.cache.pt[q] = pt[q]
                /\ DOMAIN r.cache.pt[g] = DOMAIN MapOf(pt, g) \cup {t}
                /\ r.cache.pt[g][t] = LocalListOf(pt, g, t) \o <<ty>>
                /\ \A u \in DOMAIN MapOf(pt, g) \ {t} : r.cache.pt[g][u] = pt[g][u]
                /\ \A k \in 1..MaxRepeat :
                      countParticipants(AddTimes(Cur, h, t, ty, k), <<t>>)
                          = countParticipants(Cur, <<t>>) + k

\* An addTopic has just registered a type the participant already held for
\* the topic: both lists now hold it twice.
AddedDuplicate ==
    /\ last.op = "addTopic"
    /\ HeldLocally(before.pt, LastGuid, last.topic, last.type)
    /\ Occurrences(ListOf(topic_to_types, last.topic), last.type) = 2
    /\ Occurrences(LocalListOf(participant_to_topics, LastGuid, last.topic),
                   last.type) = 2

\* ---------------------------------------------- claims on countParticipants
\* C16: countParticipants returns the sum, over the names of its argument
\* that are keys of the global map, of the lengths of their lists, a name
\* given twice counted twice and an absent name counted as zero; the result
\* depends on the global map only, and the call leaves both maps as they
\* were, with no key created for an absent name.
CountIsSumOfGlobalLengths ==
    /\ last.op = "countParticipants" =>
          /\ last.count =
                SumOver([i \in 1..Len(last.fqdns) |->
                            IF last.fqdns[i] \in DOMAIN before.tt
                            THEN Len(before.tt[last.fqdns[i]]) ELSE 0],
                        1..Len(last.fqdns))
          /\ topic_to_types = before.tt
          /\ participant_to_topics = before.pt
    /\ \A fqdns \in NameSeqs :
          countParticipants(Cur, fqdns)
              = countParticipants(Cache(topic_to_types, EmptyMap), fqdns)

\* A count has just been taken over an absent name and a topic registered
\* twice.
CountedAbsentAndDouble ==
    /\ last.op = "countParticipants" /\ Len(last.fqdns) = 2
    /\ last.fqdns[1] \notin DOMAIN before.tt
    /\ last.fqdns[2] \in DOMAIN before.tt
    /\ Len(before.tt[last.fqdns[2]]) = 2
    /\ last.count = 2

\* ------------------------------------------------ claims on the clone calls
\* The participant holds at least one type for at least one topic.
HasRegistration(pt, guid) ==
    \E t \in Topics : LocalListOf(pt, guid, t) # <<>>

\* Some participant holds a type for the topic.
TopicRegistered(pt, t) ==
    \E g \in Guids : LocalListOf(pt, g, t) # <<>>

\* C17: cloneParticipantTopics reports found exactly when the participant
\* holds a registration, and then its output is the participant's local map;
\* otherwise it reports not-found and leaves the caller's output as it was,
\* which is the case once removeTopic has removed the participant's last
\* registration. A topic that no participant holds a registration on is
\* absent from cloneTopicToTypes and counts zero.
LookupsFollowRegistrations ==
    /\ last.op = "cloneParticipantTopics" =>
          /\ last.ret <=> HasRegistration(before.pt, LastGuid)
          /\ last.ret => last.snapshot = before.pt[LastGuid]
          /\ ~last.ret => last.snapshot = PriorTopics
    /\ \A g \in Guids :
          LET r == cloneParticipantTopics(Cur, g, PriorTopics)
          IN  /\ r.found <=> HasRegistration(participant_to_topics, g)
              /\ ~r.found => r.topics = PriorTopics
    /\ \A t \in Topics :
          ~TopicRegistered(participant_to_topics, t) =>
              /\ t \notin DOMAIN cloneTopicToTypes(Cur)
              /\ countParticipants(Cur, <<t>>) = 0

\* A removeTopic has just removed a participant's last registration while
\* another participant still holds the topic: the topic counts one and the
\* participant is no longer found.
LastRegistrationRemoved ==
    /\ last.op = "removeTopic" /\ last.ret
    /\ HasRegistration(before.pt, LastGuid)
    /\ ~HasRegistration(participant_to_topics, LastGuid)
    /\ ~cloneParticipantTopics(Cur, LastGuid, PriorTopics).found
    /\ countParticipants(Cur, <<last.topic>>) = 1
    /\ TopicRegistered(participant_to_topics, last.topic)

\* ------------------------------------------------------ claims on the dump
DumpPcs == {"dmp231", "dmp244", "dmp252"}

\* C18: operator<< holds the lock from before its participant section until
\* both sections are written: while it renders, no addTopic or removeTopic
\* takes effect, so the text it writes is the participant section and the
\* cumulative section of one and the same state, the one at the instant the
\* lock was taken, and the dump changes neither map.
DumpOfOneState ==
    \A i \in Threads :
        th[i].op = "dump" =>
            /\ th[i].pc \in DumpPcs \cup {"unlock"} =>
                  /\ mutex = i
                  /\ SameAsRef
                  /\ th[i].expect.text = Dump(Cur, th[i].ord)
            /\ th[i].pc \in {"dmp244", "dmp252", "unlock"} =>
                  th[i].map_ss = RenderParticipants(ref.pt, th[i].ord)
            /\ th[i].pc \in {"dmp252", "unlock"} =>
                  th[i].topics_ss = RenderTopics(ref.tt, th[i].ord)
            /\ th[i].pc = "unlock" => th[i].text = th[i].expect.text

\* A dump that wrote both sections of a cache with two participants is about
\* to return while another call waits for the lock.
DumpDoneOtherWaits ==
    \E i \in Threads, j \in Threads :
        /\ i # j
        /\ th[i].op = "dump" /\ th[i].pc = "unlock"
        /\ th[j].pc = "lock"
        /\ DOMAIN participant_to_topics = Guids
        /\ Len(th[i].topics_ss) > 2
        /\ Len(th[i].text) > Len(th[i].topics_ss) + 2

\* ------------------------------------------------------ claims on the lock
\* The thread is past the lock_guard of a call and has not returned.
InCall(i) == th[i].pc \notin {"idle", "lock"}

\* C13: at most one call is past its lock_guard at a time and that call's
\* thread is the holder of the mutex, so every statement that reads or writes
\* a map runs with the mutex held; a thread that has returned, by whatever
\* exit path, or that still waits, does not hold it, and the mutex is free
\* whenever no call is in progress.
LockDiscipline ==
    /\ Cardinality({i \in Threads : InCall(i)}) <= 1
    /\ \A i \in Threads : InCall(i) => mutex = i
    /\ mutex # 0 => mutex \in Threads /\ InCall(mutex)
    /\ (\A i \in Threads : ~InCall(i)) => mutex = 0

\* A removeTopic that found the topic absent is on its early return, still
\* holding the mutex, while another call waits for it.
EarlyReturnHoldsLock ==
    \E i \in Threads, j \in Threads :
        /\ i # j
        /\ th[i].op = "removeTopic" /\ th[i].pc = "unlock" /\ ~th[i].ret
        /\ th[i].topic \notin DOMAIN topic_to_types
        /\ mutex = i
        /\ th[j].pc = "lock"

\* C14: no reachable state is a deadlock: in every state some thread can
\* take a step, so that a call that was invoked can still come to hold the
\* lock, run its statements and return.
EveryCallCanProceed == ENABLED ThreadNext

\* ------------------------------------------------- claims on the snapshots
\* C12: the map a clone call gave its caller is the cache's map (the global
\* one, or the participant's) as it was at the call, and stays so whatever
\* addTopic and removeTopic do to the cache afterwards, until the caller
\* itself changes it; and a change the caller makes to its map leaves both
\* maps of the cache as they were.
SnapshotIsolated ==
    /\ (held.from # "none" /\ ~held.edited) =>
          Deref(held.obj, Cur) = held.asOf
    /\ held.justEdited =>
          /\ topic_to_types = held.index.tt
          /\ participant_to_topics = held.index.pt

\* The caller still holds, unchanged, the global map it cloned, while the
\* cache has since lost one of its topics and gained another.
SnapshotOutlivesChange ==
    /\ held.from = "cloneTopicToTypes" /\ ~held.edited
    /\ Deref(held.obj, Cur) # EmptyMap
    /\ \E t \in DOMAIN held.asOf : t \notin DOMAIN topic_to_types
    /\ \E t \in DOMAIN topic_to_types : t \notin DOMAIN held.asOf

\* ------------------------------------------- claims on the count functions
\* C20: a count call made with a null node, or with a node of another
\* implementation, returns RMW_RET_ERROR, leaves the caller's count as it was
\* and queries no cache; any other call returns RMW_RET_OK and sets the count
\* to countParticipants over the topic name followed, when the name starts
\* with a slash, by each ROS prefix put before it: over the writers' cache
\* alone for publishers, over the readers' cache alone for subscribers.
CountChecksNodeAndReadsOwnCache ==
    rmw.op # "none" =>
        LET refused == rmw.node.null
                          \/ rmw.node.implementation_identifier # Identifier
            own == IF rmw.op = "count_publishers"
                   THEN [name |-> "writer_topic_cache", cache |-> writer_topic_cache]
                   ELSE [name |-> "reader_topic_cache", cache |-> reader_topic_cache]
            names == IF rmw.topic_name # <<>> /\ Head(rmw.topic_name) = "/"
                     THEN <<rmw.topic_name,
                            <<"r", "t">> \o rmw.topic_name,
                            <<"r", "q">> \o rmw.topic_name,
                            <<"r", "r">> \o rmw.topic_name>>
                     ELSE <<rmw.topic_name>>
        IN  /\ refused =>
                /\ rmw.ret = "RMW_RET_ERROR"
                /\ rmw.count = rmw.prior
                /\ rmw.queried = {}
            /\ ~refused =>
                /\ rmw.ret = "RMW_RET_OK"
                /\ rmw.queried = {own.name}
                /\ rmw.count =
                      SumOver([i \in 1..Len(names) |-> Len(ListOf(own.cache.tt, names[i]))],
                              1..Len(names))

\* A publishers count has just been refused for a node of another
\* implementation: the caller's count is still the two of an earlier call,
\* though the writers' cache would now give one.
CountRefusedKeepsCount ==
    /\ rmw.op = "count_publishers" /\ ~rmw.node.null
    /\ rmw.ret = "RMW_RET_ERROR"
    /\ rmw.topic_name = <<"/", "a">>
    /\ rmw.count = 2
    /\ countParticipants(writer_topic_cache, TopicFqdns(rmw.topic_name)) = 1
    /\ <<"r", "t", "/", "a">> \in DOMAIN writer_topic_cache.tt

====
